---- MODULE Spec2Model ----
(***************************************************************************)
(* A model of pelican/tools/pelican_quickstart_br.py: the prompt functions *)
(* ask and ask_timezone, the renderer render_jinja_template, and main, the  *)
(* sequence of prompts that fills CONF and then writes the project files.   *)
(*                                                                         *)
(* A Python str is a sequence of one-character strings.  A Python value is  *)
(* a record [t, v] tagged with its type.  One action is one call of input() *)
(* together with everything the code does with the line it returns.         *)
(***************************************************************************)
EXTENDS Integers, Sequences, FiniteSets, TLC

VARIABLES pc, CONF, args, marker, automation, asked, returned, lastAsk, attempted, errors,
          frame

vars == <<pc, CONF, args, marker, automation, asked, returned, lastAsk, attempted, errors, frame>>

(***************************************************************************)
(* Bounds                                                                  *)
(***************************************************************************)
\* The number of times one prompt may reject a line and ask again.
MaxReads == 2

(***************************************************************************)
(* Python values                                                           *)
(***************************************************************************)
None == [t |-> "none", v |-> <<>>]
Str(s) == [t |-> "str", v |-> s]
Bool(b) == [t |-> "bool", v |-> b]
Num(n) == [t |-> "int", v |-> n]
\* The one-element tuple (True,)
TupleTrue == [t |-> "tuple", v |-> <<TRUE>>]

\* Python's truth value of an object, as `if default:` and `if length` test it.
Truthy(x) ==
    CASE x.t = "none" -> FALSE
      [] x.t = "str" -> x.v # <<>>
      [] x.t = "bool" -> x.v
      [] x.t = "int" -> x.v # 0
      [] x.t = "tuple" -> x.v # <<>>

\* d[key] = value, for a dict d
Put(conf, key, value) ==
    [k \in DOMAIN conf \cup {key} |-> IF k = key THEN value ELSE conf[k]]

(***************************************************************************)
(* str methods                                                             *)
(***************************************************************************)
UPPER == <<"A","B","C","D","E","F","G","H","I","J","K","L","M",
           "N","O","P","Q","R","S","T","U","V","W","X","Y","Z">>
LOWER == <<"a","b","c","d","e","f","g","h","i","j","k","l","m",
           "n","o","p","q","r","s","t","u","v","w","x","y","z">>

\* The characters str.strip() removes.
Whitespace == {" ", "\t", "\n", "\r"}

LowerChar(c) ==
    IF \E i \in DOMAIN UPPER : UPPER[i] = c
    THEN LOWER[CHOOSE i \in DOMAIN UPPER : UPPER[i] = c]
    ELSE c

\* str.lower()
Lower(s) == [i \in DOMAIN s |-> LowerChar(s[i])]

\* str.replace(a, b) for one-character a and b
Replace(s, a, b) == [i \in DOMAIN s |-> IF s[i] = a THEN b ELSE s[i]]

RECURSIVE LStripSet(_, _)
LStripSet(s, cs) ==
    IF s # <<>> /\ Head(s) \in cs THEN LStripSet(Tail(s), cs) ELSE s

RECURSIVE RStripSet(_, _)
RStripSet(s, cs) ==
    IF s # <<>> /\ s[Len(s)] \in cs THEN RStripSet(SubSeq(s, 1, Len(s) - 1), cs) ELSE s

\* str.strip()
Strip(s) == RStripSet(LStripSet(s, Whitespace), Whitespace)

Digits == <<"0","1","2","3","4","5","6","7","8","9">>

IsDigit(c) == \E i \in DOMAIN Digits : Digits[i] = c

DigitValue(c) == (CHOOSE i \in DOMAIN Digits : Digits[i] = c) - 1

RECURSIVE DecimalValue(_)
DecimalValue(s) ==
    IF s = <<>> THEN 0
    ELSE 10 * DecimalValue(SubSeq(s, 1, Len(s) - 1)) + DigitValue(s[Len(s)])

\* The digits of a stripped literal after its optional sign.
Unsigned(s) == IF s # <<>> /\ Head(s) \in {"+", "-"} THEN Tail(s) ELSE s

\* int(r) does not raise ValueError: an optional sign, then decimal digits.
IsIntLiteral(s) ==
    /\ Unsigned(s) # <<>>
    /\ \A i \in DOMAIN Unsigned(s) : IsDigit(Unsigned(s)[i])

\* int(r)
IntOf(s) ==
    IF s # <<>> /\ Head(s) = "-" THEN 0 - DecimalValue(Unsigned(s)) ELSE DecimalValue(Unsigned(s))

RECURSIVE Decimal(_)
\* str(n) for a natural number n
Decimal(n) ==
    IF n < 10 THEN <<Digits[n + 1]>> ELSE Decimal(n \div 10) \o <<Digits[(n % 10) + 1]>>

\* repr(x), for strings that hold no quote and no backslash
repr(x) ==
    CASE x.t = "none" -> <<"N","o","n","e">>
      [] x.t = "str" -> <<"'">> \o x.v \o <<"'">>
      [] x.t = "bool" -> IF x.v THEN <<"T","r","u","e">> ELSE <<"F","a","l","s","e">>
      [] x.t = "int" -> IF x.v < 0 THEN <<"-">> \o Decimal(0 - x.v) ELSE Decimal(x.v)
      [] x.t = "tuple" -> <<"(","T","r","u","e",",",")">>

(***************************************************************************)
(* ask: what one pass of the `while True` loop does with the line read.     *)
(* done is FALSE when the loop prints its message and reads again.          *)
(***************************************************************************)
Ret(x) == [done |-> TRUE, value |-> x]
Again == [done |-> FALSE, value |-> None]

\* ask without its "Deve ser inserido um valor" branch: an empty answer is returned
AskStrEmptyAccepted(default, length, line) ==
    LET r == Strip(line) IN
    IF Len(r) <= 0
    THEN IF Truthy(default) THEN Ret(default) ELSE Ret(Str(r))
    ELSE IF Truthy(length) /\ Len(r) # length.v THEN Again ELSE Ret(Str(r))

AskStr(default, length, line) ==
    LET r == Strip(line) IN
    IF Len(r) <= 0
    THEN IF Truthy(default) THEN Ret(default) ELSE Again
    ELSE IF Truthy(length) /\ Len(r) # length.v THEN Again ELSE Ret(Str(r))

Yes == {<<"y">>, <<"y","e","s"," ","/"," ","s","i","m">>}
No == {<<"n">>, <<"n","o"," ","/"," ","n","a","o">>}

AskBool(default, line) ==
    LET r == Lower(Strip(line)) IN
    IF r \in Yes THEN Ret(Bool(TRUE))
    ELSE IF r \in No THEN Ret(Bool(FALSE))
    ELSE IF r = <<>> THEN Ret(default)
    ELSE Again

AskInt(default, line) ==
    LET r == Strip(line) IN
    IF r = <<>> THEN Ret(default)
    ELSE IF IsIntLiteral(r) THEN Ret(Num(IntOf(r)))
    ELSE Again

AnswerKinds == {"str", "bool", "int"}

ask(answer, default, length, line) ==
    CASE answer = "str" -> AskStr(default, length, line)
      [] answer = "bool" -> AskBool(default, line)
      [] answer = "int" -> AskInt(default, line)

(***************************************************************************)
(* ask_timezone                                                            *)
(***************************************************************************)
AmericaFortaleza == <<"A","m","e","r","i","c","a","/","F","o","r","t","a","l","e","z","a">>
AmericaNewYork == <<"A","m","e","r","i","c","a","/","N","e","w","_","Y","o","r","k">>
UTC == <<"U","T","C">>

\* zoneinfo.available_timezones(), three of its names
AvailableTimezones == {AmericaFortaleza, AmericaNewYork, UTC}

tz_dict ==
    [k \in {Lower(tz) : tz \in AvailableTimezones} |->
        CHOOSE tz \in AvailableTimezones : Lower(tz) = k]

\* ask_timezone without `r = tz_dict[r]`: the normalised answer is returned
AskTimezoneNormalised(default, line) ==
    LET a == AskStr(default, None, line) IN
    IF ~a.done THEN Again
    ELSE LET r == Lower(Replace(Strip(a.value.v), " ", "_")) IN
         IF r \in DOMAIN tz_dict THEN Ret(Str(r)) ELSE Again

\* One pass of ask_timezone's loop; the inner ask's own re-prompt is a pass too.
AskTimezone(default, line) ==
    LET a == AskStr(default, None, line) IN
    IF ~a.done THEN Again
    ELSE LET r == Lower(Replace(Strip(a.value.v), " ", "_")) IN
         IF r \in DOMAIN tz_dict THEN Ret(Str(tz_dict[r])) ELSE Again

(***************************************************************************)
(* A call of input() by a prompt: the line read, what the loop made of it,  *)
(* and how many lines the running call has read.                            *)
(***************************************************************************)
NoAsk ==
    [q |-> "", fn |-> "", default |-> None, length |-> None, line |-> <<>>,
     done |-> FALSE, value |-> None, reads |-> 0, blanks |-> 0]

\* A line of white space only (told without str.strip()).
IsBlank(line) == \A i \in DOMAIN line : line[i] \in Whitespace

\* One pass of the loop of ask (fn is its answer kind) or of ask_timezone ("tz").
Pass(fn, default, length, line) ==
    IF fn = "tz" THEN AskTimezone(default, line) ELSE ask(fn, default, length, line)

\* Lines the call of prompt q that is still looping has read so far.
ReadsSoFar(q) == IF lastAsk.q = q /\ ~lastAsk.done THEN lastAsk.reads ELSE 0
BlanksSoFar(q) == IF lastAsk.q = q /\ ~lastAsk.done THEN lastAsk.blanks ELSE 0

\* Prompt q reads one line out of Lines.
Prompt(q, fn, default, length, Lines) ==
    \E line \in Lines :
        LET s == Pass(fn, default, length, line) IN
        /\ IF s.done THEN TRUE ELSE ReadsSoFar(q) < MaxReads
        /\ lastAsk' = [q |-> q, fn |-> fn, default |-> default, length |-> length,
                       line |-> line, done |-> s.done, value |-> s.value,
                       reads |-> ReadsSoFar(q) + 1,
                       blanks |-> BlanksSoFar(q) + (IF IsBlank(line) THEN 1 ELSE 0)]
        /\ asked' = asked \cup {[q |-> q, default |-> default]}
        /\ returned' = IF s.done THEN Put(returned, q, s.value) ELSE returned

(***************************************************************************)
(* Lines a user may type                                                   *)
(***************************************************************************)
BlankLines == {<<>>, <<" ">>, <<"\t", " ">>}

TextLines ==
    {<<"p","t">>, <<" ","p","t"," ">>, <<"e","n","g">>, <<"x">>, <<"a"," ","b">>}

BoolLines ==
    {<<"y">>, <<"Y">>, <<" ","y"," ">>, <<"y","e","s">>, <<"Y","E","S">>,
     <<"n">>, <<"N">>, <<"n","o">>, <<"N","o">>, <<"s","i","m">>, <<"x">>,
     <<"y","e","s"," ","/"," ","s","i","m">>, <<"Y","e","s"," ","/"," ","S","i","m">>,
     <<"n","o"," ","/"," ","n","a","o">>}

IntLines ==
    {<<"1","0">>, <<" ","5"," ">>, <<"-","3">>, <<"+","7">>, <<"0">>,
     <<"x">>, <<"1","x">>, <<"-">>}

TzLines ==
    {UTC, <<"u","t","c">>, <<" ","U","t","c"," ">>, Lower(AmericaFortaleza),
     Replace(AmericaNewYork, "_", " "), Lower(AmericaNewYork),
     <<"M","a","r","s">>, <<"A","m","e","r","i","c","a">>}

(***************************************************************************)
(* A caller of ask and ask_timezone with arguments of its choice            *)
(***************************************************************************)
Frames ==
    [fn : {"ask"}, answer : {"str"},
     default : {None, Str(<<>>), Str(<<"p","t">>), Str(<<"e","n","g">>), Str(<<" ","p","t">>)},
     length : {None, Num(2)}]
    \cup [fn : {"ask"}, answer : {"bool"},
          default : {None, Bool(TRUE), Bool(FALSE)}, length : {None}]
    \cup [fn : {"ask"}, answer : {"int"},
          default : {None, Num(10), Num(0)}, length : {None}]
    \cup [fn : {"ask"}, answer : {"float"}, default : {None}, length : {None}]
    \cup [fn : {"ask_timezone"}, answer : {"str"},
          default : {None, Str(<<>>), Str(AmericaFortaleza), Str(<<"u","t","c">>),
                     Str(Replace(AmericaNewYork, "_", " ")), Str(<<"M","a","r","s">>)},
          length : {None}]

MainFrame == [fn |-> "main", answer |-> "", default |-> None, length |-> None]

LinesOf(f) ==
    BlankLines \cup
    (IF f.fn = "ask_timezone" THEN TzLines
     ELSE IF f.answer = "bool" THEN BoolLines
     ELSE IF f.answer = "int" THEN IntLines
     ELSE TextLines)

CallAsk ==
    /\ pc = "call"
    /\ frame.fn = "ask"
    /\ frame.answer \in AnswerKinds
    /\ Prompt("ask", frame.answer, frame.default, frame.length, LinesOf(frame))
    /\ pc' = IF lastAsk'.done THEN "returned" ELSE "call"
    /\ UNCHANGED <<CONF, args, marker, automation, attempted, errors, frame>>

\* `raise NotImplementedError` for an answer kind that is none of str, bool, int
CallAskUnsupported ==
    /\ pc = "call"
    /\ frame.fn = "ask"
    /\ frame.answer \notin AnswerKinds
    /\ pc' = "raised"
    /\ UNCHANGED <<CONF, args, marker, automation, asked, returned, lastAsk, attempted, errors, frame>>

CallAskTimezone ==
    /\ pc = "call"
    /\ frame.fn = "ask_timezone"
    /\ Prompt("ask_timezone", "tz", frame.default, None, LinesOf(frame))
    /\ pc' = IF lastAsk'.done THEN "returned" ELSE "call"
    /\ UNCHANGED <<CONF, args, marker, automation, attempted, errors, frame>>

InitAsk ==
    /\ pc = "call"
    /\ frame \in Frames
    /\ CONF = <<>>
    /\ args = <<>>
    /\ marker = None
    /\ automation = None
    /\ asked = {}
    /\ returned = <<>>
    /\ lastAsk = NoAsk
    /\ attempted = <<>>
    /\ errors = {}

NextAsk == CallAsk \/ CallAskUnsupported \/ CallAskTimezone

SpecAsk == InitAsk /\ [][NextAsk]_vars

(***************************************************************************)
(* Module-level values                                                     *)
(***************************************************************************)
\* os.curdir
curdir == <<".">>

\* The working directory and the home directory of the user who runs the tool.
cwd == <<"/","w","d">>
home == <<"/","h">>

\* locale.getlocale()[0] split at "_", or "pt" when the locale has no name
_DEFAULT_LANGUAGE(loc) ==
    IF loc = None THEN <<"p","t">>
    ELSE IF \E i \in DOMAIN loc.v : loc.v[i] = "_"
         THEN SubSeq(loc.v, 1, (CHOOSE i \in DOMAIN loc.v :
                                   loc.v[i] = "_" /\ \A j \in 1..(i - 1) : loc.v[j] # "_") - 1)
         ELSE loc.v

_GITHUB_PAGES_BRANCHES ==
    [personal |-> <<"m","a","i","n">>, project |-> <<"g","h","-","p","a","g","e","s">>]

SshPort == 22
DefaultPagination == 10
\* The length main requires of the language
LangLength == 2

\* CONF as the module defines it, for a locale language and a local time zone
CONF0(language, timezone) ==
    [
     pelican |-> Str(<<"p","e","l","i","c","a","n">>),
     pelicanopts |-> Str(<<>>),
     basedir |-> Str(curdir),
     ftp_host |-> Str(<<"l","o","c","a","l","h","o","s","t">>),
     ftp_user |-> Str(<<"a","n","o","n","y","m","o","u","s">>),
     ftp_target_dir |-> Str(<<"/">>),
     ssh_host |-> Str(<<"l","o","c","a","l","h","o","s","t">>),
     ssh_port |-> Num(SshPort),
     ssh_user |-> Str(<<"r","o","o","t">>),
     ssh_target_dir |-> Str(<<"/","v","a","r","/","w","w","w">>),
     s3_bucket |-> Str(<<"m","y","_","s","3","_","b","u","c","k","e","t">>),
     cloudfiles_username |-> Str(<<"m","y","_","r","a","c","k","s","p","a","c","e","_","u","s","e","r","n","a","m","e">>),
     cloudfiles_api_key |-> Str(<<"m","y","_","r","a","c","k","s","p","a","c","e","_","a","p","i","_","k","e","y">>),
     cloudfiles_container |-> Str(<<"m","y","_","c","l","o","u","d","f","i","l","e","s","_","c","o","n","t","a","i","n","e","r">>),
     dropbox_dir |-> Str(<<"~","/","D","r","o","p","b","o","x","/","P","u","b","l","i","c","/">>),
     github_pages_branch |-> Str(_GITHUB_PAGES_BRANCHES.project),
     default_pagination |-> Num(DefaultPagination),
     siteurl |-> Str(<<>>),
     lang |-> Str(language),
     timezone |-> timezone]

\* The settings whose defaults no locale and no time zone decides
DefaultCONF == CONF0(<<>>, None)

\* The keys of the publishing targets' settings
TargetKeys ==
    [ftp |-> {"ftp_host", "ftp_user", "ftp_target_dir"},
     ssh |-> {"ssh_host", "ssh_port", "ssh_user", "ssh_target_dir"},
     dropbox |-> {"dropbox_dir"},
     s3 |-> {"s3_bucket"},
     cloudfiles |-> {"cloudfiles_username", "cloudfiles_api_key", "cloudfiles_container"},
     github |-> {"github_pages_branch"}]

(***************************************************************************)
(* os.path                                                                 *)
(***************************************************************************)
RECURSIVE Split(_, _)
\* s.split(sep) for a one-character sep
Split(s, sep) ==
    IF \E i \in DOMAIN s : s[i] = sep
    THEN LET i == CHOOSE i \in DOMAIN s : s[i] = sep /\ \A j \in 1..(i - 1) : s[j] # sep
         IN <<SubSeq(s, 1, i - 1)>> \o Split(SubSeq(s, i + 1, Len(s)), sep)
    ELSE <<s>>

RECURSIVE NormComponents(_, _)
\* The components normpath keeps of an absolute path: no "", no ".", ".." folded.
NormComponents(comps, kept) ==
    IF comps = <<>> THEN kept
    ELSE IF Head(comps) \in {<<>>, <<".">>} THEN NormComponents(Tail(comps), kept)
    ELSE IF Head(comps) = <<".", ".">>
         THEN NormComponents(Tail(comps),
                             IF kept = <<>> THEN kept ELSE SubSeq(kept, 1, Len(kept) - 1))
    ELSE NormComponents(Tail(comps), Append(kept, Head(comps)))

RECURSIVE JoinRoot(_)
JoinRoot(comps) ==
    IF comps = <<>> THEN <<>> ELSE <<"/">> \o Head(comps) \o JoinRoot(Tail(comps))

\* os.path.expanduser
expanduser(p) ==
    IF p # <<>> /\ Head(p) = "~" /\ (Len(p) = 1 \/ p[2] = "/")
    THEN RStripSet(home, {"/"}) \o Tail(p)
    ELSE p

\* os.path.abspath
abspath(p) ==
    LET full == IF p # <<>> /\ Head(p) = "/" THEN p ELSE cwd \o <<"/">> \o p
        comps == NormComponents(Split(full, "/"), <<>>)
    IN IF comps = <<>> THEN <<"/">> ELSE JoinRoot(comps)

(***************************************************************************)
(* main.  pc names the statement main is at; a prompt's pc is its name.     *)
(* U names what the run may meet: the lines the user may type at each kind  *)
(* of prompt and the outcomes of the file system calls.                     *)
(***************************************************************************)
Rest == <<args, marker, attempted, errors, frame>>

\* CONF[key] = ask(..., fn, default, length), then the statement at nxt
AskInto(q, key, fn, default, length, Lines, nxt) ==
    /\ pc = q
    /\ Prompt(q, fn, default, length, Lines)
    /\ IF lastAsk'.done
       THEN CONF' = Put(CONF, key, lastAsk'.value) /\ pc' = nxt
       ELSE UNCHANGED <<CONF, pc>>
    /\ UNCHANGED automation
    /\ UNCHANGED Rest

\* if ask(..., bool, False): CONF[flag] = (True,) and the statement at yes; else at no
AskOptIn(q, flag, Lines, yes, no) ==
    /\ pc = q
    /\ Prompt(q, "bool", Bool(FALSE), None, Lines)
    /\ IF lastAsk'.done
       THEN IF Truthy(lastAsk'.value)
            THEN CONF' = Put(CONF, flag, TupleTrue) /\ pc' = yes
            ELSE CONF' = CONF /\ pc' = no
       ELSE UNCHANGED <<CONF, pc>>
    /\ UNCHANGED automation
    /\ UNCHANGED Rest

\* The marker file is used whether or not -p was given.
ReusesProjectAnyPath == marker # None

\* os.path.isfile(project) and no_path_was_specified
ReusesProject == marker # None /\ args.path.is_default_path

\* CONF["basedir"] = open(project).read().rstrip("\n")
UseProject ==
    /\ pc = "basedir"
    /\ ReusesProject
    /\ CONF' = Put(CONF, "basedir", Str(RStripSet(marker.v, {"\n"})))
    /\ pc' = "sitename"
    /\ UNCHANGED <<automation, asked, returned, lastAsk>>
    /\ UNCHANGED Rest

PromptBasedir(U) ==
    /\ pc = "basedir"
    /\ ~ReusesProject
    /\ Prompt("basedir", "str", Str(args.path.v), None, U.dir)
    /\ IF lastAsk'.done
       THEN /\ CONF' = Put(CONF, "basedir", Str(abspath(expanduser(lastAsk'.value.v))))
            /\ pc' = "sitename"
       ELSE UNCHANGED <<CONF, pc>>
    /\ UNCHANGED automation
    /\ UNCHANGED Rest

PromptSitename(U) ==
    AskInto("sitename", "sitename", "str", args.title, None, U.text, "author")

PromptAuthor(U) ==
    AskInto("author", "author", "str", args.author, None, U.text, "lang")

PromptLang(U) ==
    AskInto("lang", "lang", "str",
            IF Truthy(args.lang) THEN args.lang ELSE CONF["lang"],
            Num(LangLength), U.lang, "siteurl?")

PromptSiteurlOptIn(U) ==
    /\ pc = "siteurl?"
    /\ Prompt("siteurl?", "bool", Bool(TRUE), None, U.yn)
    /\ pc' = IF ~lastAsk'.done THEN pc
             ELSE IF Truthy(lastAsk'.value) THEN "siteurl" ELSE "with_pagination"
    /\ UNCHANGED <<CONF, automation>>
    /\ UNCHANGED Rest

PromptSiteurl(U) ==
    AskInto("siteurl", "siteurl", "str", CONF["siteurl"], None, U.url, "with_pagination")

\* main without its `else: CONF["default_pagination"] = False`
PromptWithPaginationKeepsCount(U) ==
    /\ pc = "with_pagination"
    /\ Prompt("with_pagination", "bool", Bool(Truthy(CONF["default_pagination"])), None, U.yn)
    /\ IF lastAsk'.done
       THEN /\ CONF' = Put(CONF, "with_pagination", lastAsk'.value)
            /\ pc' = IF Truthy(lastAsk'.value) THEN "default_pagination" ELSE "timezone"
       ELSE UNCHANGED <<CONF, pc>>
    /\ UNCHANGED automation
    /\ UNCHANGED Rest

PromptWithPagination(U) ==
    /\ pc = "with_pagination"
    /\ Prompt("with_pagination", "bool", Bool(Truthy(CONF["default_pagination"])), None, U.yn)
    /\ IF lastAsk'.done
       THEN IF Truthy(lastAsk'.value)
            THEN /\ CONF' = Put(CONF, "with_pagination", lastAsk'.value)
                 /\ pc' = "default_pagination"
            ELSE /\ CONF' = Put(Put(CONF, "with_pagination", lastAsk'.value),
                                "default_pagination", Bool(FALSE))
                 /\ pc' = "timezone"
       ELSE UNCHANGED <<CONF, pc>>
    /\ UNCHANGED automation
    /\ UNCHANGED Rest

PromptDefaultPagination(U) ==
    AskInto("default_pagination", "default_pagination", "int",
            CONF["default_pagination"], None, U.int, "timezone")

PromptTimezone(U) ==
    AskInto("timezone", "timezone", "tz", CONF["timezone"], None, U.tz, "automation")

PromptAutomation(U) ==
    /\ pc = "automation"
    /\ Prompt("automation", "bool", Bool(TRUE), None, U.auto)
    /\ IF lastAsk'.done
       THEN /\ automation' = lastAsk'.value
            /\ pc' = IF Truthy(lastAsk'.value) THEN "ftp" ELSE "content"
       ELSE UNCHANGED <<automation, pc>>
    /\ UNCHANGED CONF
    /\ UNCHANGED Rest

PromptFtp(U) == AskOptIn("ftp", "ftp", U.optin, "ftp_host", "ssh")

PromptFtpHost(U) ==
    AskInto("ftp_host", "ftp_host", "str", CONF["ftp_host"], None, U.sub, "ftp_user")

PromptFtpUser(U) ==
    AskInto("ftp_user", "ftp_user", "str", CONF["ftp_user"], None, U.sub, "ftp_target_dir")

PromptFtpTargetDir(U) ==
    AskInto("ftp_target_dir", "ftp_target_dir", "str", CONF["ftp_target_dir"], None, U.sub, "ssh")

PromptSsh(U) == AskOptIn("ssh", "ssh", U.optin, "ssh_host", "dropbox")

\* The SSH host stored under the FTP host's key
PromptSshHostIntoFtp(U) ==
    AskInto("ssh_host", "ftp_host", "str", CONF["ssh_host"], None, U.sub, "ssh_port")

PromptSshHost(U) ==
    AskInto("ssh_host", "ssh_host", "str", CONF["ssh_host"], None, U.sub, "ssh_port")

PromptSshPort(U) ==
    AskInto("ssh_port", "ssh_port", "int", CONF["ssh_port"], None, U.port, "ssh_user")

PromptSshUser(U) ==
    AskInto("ssh_user", "ssh_user", "str", CONF["ssh_user"], None, U.sub, "ssh_target_dir")

PromptSshTargetDir(U) ==
    AskInto("ssh_target_dir", "ssh_target_dir", "str", CONF["ssh_target_dir"], None, U.sub,
            "dropbox")

PromptDropbox(U) == AskOptIn("dropbox", "dropbox", U.optin, "dropbox_dir", "s3")

PromptDropboxDir(U) ==
    AskInto("dropbox_dir", "dropbox_dir", "str", CONF["dropbox_dir"], None, U.sub, "s3")

PromptS3(U) == AskOptIn("s3", "s3", U.optin, "s3_bucket", "cloudfiles")

PromptS3Bucket(U) ==
    AskInto("s3_bucket", "s3_bucket", "str", CONF["s3_bucket"], None, U.sub, "cloudfiles")

PromptCloudfiles(U) ==
    AskOptIn("cloudfiles", "cloudfiles", U.optin, "cloudfiles_username", "github")

PromptCloudfilesUsername(U) ==
    AskInto("cloudfiles_username", "cloudfiles_username", "str", CONF["cloudfiles_username"],
            None, U.sub, "cloudfiles_api_key")

PromptCloudfilesApiKey(U) ==
    AskInto("cloudfiles_api_key", "cloudfiles_api_key", "str", CONF["cloudfiles_api_key"],
            None, U.sub, "cloudfiles_container")

PromptCloudfilesContainer(U) ==
    AskInto("cloudfiles_container", "cloudfiles_container", "str",
            CONF["cloudfiles_container"], None, U.sub, "github")

PromptGithub(U) == AskOptIn("github", "github", U.optin, "github_personal", "content")

PromptGithubPersonal(U) ==
    /\ pc = "github_personal"
    /\ Prompt("github_personal", "bool", Bool(FALSE), None, U.optin)
    /\ IF lastAsk'.done
       THEN /\ CONF' = Put(CONF, "github_pages_branch",
                           IF Truthy(lastAsk'.value)
                           THEN Str(_GITHUB_PAGES_BRANCHES.personal)
                           ELSE Str(_GITHUB_PAGES_BRANCHES.project))
            /\ pc' = "content"
       ELSE UNCHANGED <<CONF, pc>>
    /\ UNCHANGED automation
    /\ UNCHANGED Rest

(***************************************************************************)
(* Directories and files.  A step that raises OSError prints the error; its *)
(* name joins errors.  attempted lists the steps in the order they ran.     *)
(***************************************************************************)
\* try: os.makedirs(os.path.join(CONF["basedir"], dir)) except OSError: print
makedirs(dir, nxt, Outcomes) ==
    /\ pc = dir
    /\ \E ok \in Outcomes :
        /\ attempted' = Append(attempted, dir)
        /\ errors' = IF ok THEN errors ELSE errors \cup {dir}
    /\ pc' = nxt
    /\ UNCHANGED <<CONF, args, marker, automation, asked, returned, lastAsk, frame>>

\* render_jinja_template without its `except OSError`: the error ends the run
render_jinja_templateFatal(target, nxt, Outcomes) ==
    /\ pc = target
    /\ \E ok \in Outcomes :
        /\ attempted' = Append(attempted, target)
        /\ errors' = errors
        /\ pc' = IF ok THEN nxt ELSE "raised"
    /\ UNCHANGED <<CONF, args, marker, automation, asked, returned, lastAsk, frame>>

\* render_jinja_template(target + ".jinja2", ..., target)
render_jinja_template(target, nxt, Outcomes) ==
    /\ pc = target
    /\ \E ok \in Outcomes :
        /\ attempted' = Append(attempted, target)
        /\ errors' = IF ok THEN errors ELSE errors \cup {target}
    /\ pc' = nxt
    /\ UNCHANGED <<CONF, args, marker, automation, asked, returned, lastAsk, frame>>

MakeContent(U) == makedirs("content", "output", U.fs)

MakeOutput(U) == makedirs("output", "pelicanconf.py", U.fs)

\* conf_python: the repr of every value of CONF, in a dict of its own
conf_python(conf) == [k \in DOMAIN conf |-> Str(repr(conf[k]))]

\* `conf_python = CONF` for `conf_python = dict()`: the reprs are written into CONF
RenderPelicanconfAliased(U) ==
    /\ pc = "pelicanconf.py"
    /\ \E ok \in U.fs :
        /\ attempted' = Append(attempted, "pelicanconf.py")
        /\ errors' = IF ok THEN errors ELSE errors \cup {"pelicanconf.py"}
    /\ CONF' = conf_python(CONF)
    /\ pc' = "publishconf.py"
    /\ UNCHANGED <<args, marker, automation, asked, returned, lastAsk, frame>>

\* CONF is only read: the template is rendered with conf_python(CONF).
RenderPelicanconf(U) == render_jinja_template("pelicanconf.py", "publishconf.py", U.fs)

\* main without its `if automation:` before the last two templates
RenderPublishconfThenTasks(U) ==
    render_jinja_template("publishconf.py", "tasks.py", U.fs)

RenderPublishconf(U) ==
    render_jinja_template("publishconf.py",
                          IF Truthy(automation) THEN "tasks.py" ELSE "finish", U.fs)

RenderTasks(U) == render_jinja_template("tasks.py", "Makefile", U.fs)

RenderMakefile(U) == render_jinja_template("Makefile", "finish", U.fs)

\* print("Pronto. ...")
Finish ==
    /\ pc = "finish"
    /\ pc' = "done"
    /\ UNCHANGED <<CONF, args, marker, automation, asked, returned, lastAsk, attempted, errors, frame>>

\* The state when main starts, for the command lines, marker files, locales and
\* local time zones of E.
MainInit(E) ==
    /\ pc = "basedir"
    /\ args \in E.args
    /\ marker \in E.marker
    /\ \E loc \in E.locale, tz \in E.localzone : CONF = CONF0(_DEFAULT_LANGUAGE(loc), tz)
    /\ automation = None
    /\ asked = {}
    /\ returned = <<>>
    /\ lastAsk = NoAsk
    /\ attempted = <<>>
    /\ errors = {}
    /\ frame = MainFrame

Main(U) ==
    \/ UseProject
    \/ PromptBasedir(U)
    \/ PromptSitename(U)
    \/ PromptAuthor(U)
    \/ PromptLang(U)
    \/ PromptSiteurlOptIn(U)
    \/ PromptSiteurl(U)
    \/ PromptWithPagination(U)
    \/ PromptDefaultPagination(U)
    \/ PromptTimezone(U)
    \/ PromptAutomation(U)
    \/ PromptFtp(U)
    \/ PromptFtpHost(U)
    \/ PromptFtpUser(U)
    \/ PromptFtpTargetDir(U)
    \/ PromptSsh(U)
    \/ PromptSshHost(U)
    \/ PromptSshPort(U)
    \/ PromptSshUser(U)
    \/ PromptSshTargetDir(U)
    \/ PromptDropbox(U)
    \/ PromptDropboxDir(U)
    \/ PromptS3(U)
    \/ PromptS3Bucket(U)
    \/ PromptCloudfiles(U)
    \/ PromptCloudfilesUsername(U)
    \/ PromptCloudfilesApiKey(U)
    \/ PromptCloudfilesContainer(U)
    \/ PromptGithub(U)
    \/ PromptGithubPersonal(U)
    \/ MakeContent(U)
    \/ MakeOutput(U)
    \/ RenderPelicanconf(U)
    \/ RenderPublishconf(U)
    \/ RenderTasks(U)
    \/ RenderMakefile(U)
    \/ Finish

(***************************************************************************)
(* Runs                                                                    *)
(***************************************************************************)
ProjectFile == Str(<<"/","p","r","o","j","\n">>)

\* -p given or not, -l given or not; no -t, no -a
CommandLines ==
    [path : {[v |-> curdir, is_default_path |-> TRUE],
             [v |-> curdir, is_default_path |-> FALSE],
             [v |-> <<"s","i","t","e">>, is_default_path |-> FALSE]},
     title : {None}, author : {None},
     lang : {None, Str(<<"e","n","g">>)}]

BareCommandLine ==
    [path |-> [v |-> curdir, is_default_path |-> TRUE],
     title |-> None, author |-> None, lang |-> None]

\* -t and -a given
TitledCommandLine ==
    [path |-> [v |-> curdir, is_default_path |-> TRUE],
     title |-> Str(<<"B","l","o","g">>), author |-> Str(<<"A","n","a">>), lang |-> None]

AnyEnv ==
    [args |-> CommandLines,
     marker |-> {None, ProjectFile},
     locale |-> {None, Str(<<"f","i","l","_","P","H">>)},
     localzone |-> {Str(AmericaFortaleza)}]

PlainEnv ==
    [args |-> {BareCommandLine},
     marker |-> {None, ProjectFile},
     locale |-> {Str(<<"e","n","_","U","S">>)},
     localzone |-> {Str(AmericaFortaleza)}]

TitledEnv ==
    [args |-> {BareCommandLine, TitledCommandLine},
     marker |-> {None, ProjectFile},
     locale |-> {Str(<<"e","n","_","U","S">>)},
     localzone |-> {Str(AmericaFortaleza)}]

Enter == <<>>

\* A user who answers the questions up to the automation one in every way, then
\* takes every publishing target with its defaults.
FrontUser ==
    [dir |-> {Enter, <<"b","l","o","g">>, <<" ","~","/","b","l","o","g","/"," ">>},
     text |-> {Enter, <<" ","A","n","a"," ">>},
     lang |-> {Enter, <<"e","n">>, <<"e","n","g">>, <<"p">>},
     yn |-> {Enter, <<"y">>, <<"n">>, <<"y","e","s">>},
     url |-> {Enter, <<"u">>},
     int |-> {Enter, <<"5">>, <<"0">>, <<"x">>},
     tz |-> {Enter, <<"u","t","c">>, <<"M","a","r","s">>},
     auto |-> {Enter, <<"y">>, <<"n">>, <<"y","e","s">>},
     optin |-> {<<"y">>},
     sub |-> {Enter},
     port |-> {Enter},
     fs |-> {TRUE}]

\* A user who takes the defaults up to the automation question, then answers the
\* publishing questions in every way.
PublishUser ==
    [dir |-> {Enter},
     text |-> {<<"A","n","a">>},
     lang |-> {Enter},
     yn |-> {Enter},
     url |-> {<<"u">>},
     int |-> {Enter},
     tz |-> {Enter},
     auto |-> {Enter, <<"n">>},
     optin |-> {Enter, <<"y">>},
     sub |-> {Enter, <<"x">>},
     port |-> {Enter, <<"2","2","2","2">>},
     fs |-> {TRUE}]

\* A user who takes every default and every publishing target, on a file system
\* where any step may fail.
DefaultsUser ==
    [dir |-> {Enter},
     text |-> {Enter, <<"A","n","a">>},
     lang |-> {Enter},
     yn |-> {Enter},
     url |-> {<<"u">>},
     int |-> {Enter},
     tz |-> {Enter},
     auto |-> {Enter, <<"n">>},
     optin |-> {<<"y">>},
     sub |-> {Enter},
     port |-> {Enter},
     fs |-> BOOLEAN]

Init == MainInit(AnyEnv)
Next == Main(FrontUser)
Spec == Init /\ [][Next]_vars

InitPublish == MainInit(PlainEnv)
NextPublish == Main(PublishUser)
SpecPublish == InitPublish /\ [][NextPublish]_vars

InitFiles == MainInit(TitledEnv)
NextFiles == Main(DefaultsUser)
SpecFiles == InitFiles /\ [][NextFiles]_vars

(***************************************************************************)
(* Properties of ask and ask_timezone (SpecAsk)                            *)
(***************************************************************************)
\* t is line without the white space around it
IsTrimOf(t, line) ==
    /\ t # <<>>
    /\ t[1] \notin Whitespace
    /\ t[Len(t)] \notin Whitespace
    /\ \E i \in 1..Len(line) :
        /\ i + Len(t) - 1 <= Len(line)
        /\ SubSeq(line, i, i + Len(t) - 1) = t
        /\ \A j \in 1..Len(line) : (j < i \/ j > i + Len(t) - 1) => line[j] \in Whitespace

\* C1: a boolean prompt, comparing the line trimmed and lower-cased, returns true
\* for "y" and "yes", false for "n" and "no", the default for an empty line, and
\* for any other token returns nothing and asks again.
C1_BooleanTokens ==
    lastAsk.fn = "bool" =>
        LET token == Lower(Strip(lastAsk.line)) IN
        /\ token \in {<<"y">>, <<"y","e","s">>} =>
              lastAsk.done /\ lastAsk.value = Bool(TRUE)
        /\ token \in {<<"n">>, <<"n","o">>} =>
              lastAsk.done /\ lastAsk.value = Bool(FALSE)
        /\ token = <<>> => lastAsk.done /\ lastAsk.value = lastAsk.default
        /\ token \notin {<<>>, <<"y">>, <<"y","e","s">>, <<"n">>, <<"n","o">>} =>
              ~lastAsk.done

\* C3: a text prompt with no required length returns a non-empty default, as it
\* is, on a blank line; with no default it rejects every blank line and returns
\* the first other line trimmed, so after k blank lines it returns at read k + 1.
C3_TextDefaultOrReprompt ==
    (lastAsk.fn = "str" /\ lastAsk.length = None) =>
        /\ (IsBlank(lastAsk.line) /\ lastAsk.default.t = "str" /\ lastAsk.default.v # <<>>) =>
              lastAsk.done /\ lastAsk.value = lastAsk.default
        /\ lastAsk.default \in {None, Str(<<>>)} =>
              /\ IsBlank(lastAsk.line) => ~lastAsk.done
              /\ ~IsBlank(lastAsk.line) =>
                    /\ lastAsk.done
                    /\ lastAsk.value.t = "str"
                    /\ IsTrimOf(lastAsk.value.v, lastAsk.line)
              /\ lastAsk.reads = lastAsk.blanks + (IF lastAsk.done THEN 1 ELSE 0)

\* Two blank lines, then " pt ", to a text prompt with no default: "pt" at read 3.
C3_Witness ==
    /\ lastAsk.fn = "str"
    /\ lastAsk.length = None
    /\ lastAsk.default = None
    /\ lastAsk.done
    /\ lastAsk.blanks = 2
    /\ lastAsk.reads = 3
    /\ lastAsk.line = <<" ","p","t"," ">>
    /\ lastAsk.value = Str(<<"p","t">>)

\* trim, spaces to underscores, lower-case
Normalised(s) == Lower(Replace(Strip(s), " ", "_"))

\* C4: ask_timezone accepts an answer, typed or the default taken on a blank
\* line, exactly when its normalisation is the lower-cased form of a canonical
\* name, and then returns that canonical name; any other answer is asked again.
C4_TimezoneCanonical ==
    lastAsk.fn = "tz" =>
        LET answered == ~IsBlank(lastAsk.line) \/ Truthy(lastAsk.default)
            answer == IF ~IsBlank(lastAsk.line) THEN lastAsk.line ELSE lastAsk.default.v
            canonical == {tz \in AvailableTimezones : Lower(tz) = Normalised(answer)}
        IN IF answered /\ canonical # {}
           THEN lastAsk.done /\ lastAsk.value.t = "str" /\ lastAsk.value.v \in canonical
           ELSE ~lastAsk.done

\* "America/New York", typed after a rejected answer, returns "America/New_York".
C4_Witness ==
    /\ lastAsk.fn = "tz"
    /\ lastAsk.done
    /\ lastAsk.reads >= 2
    /\ lastAsk.line = Replace(AmericaNewYork, "_", " ")
    /\ lastAsk.value = Str(AmericaNewYork)

(***************************************************************************)
(* Properties of main                                                      *)
(***************************************************************************)
Asked(q) == \E a \in asked : a.q = q

Returned(q, x) == q \in DOMAIN returned /\ returned[q] = x

Ran(step) == \E i \in DOMAIN attempted : attempted[i] = step

FileSteps == <<"content", "output", "pelicanconf.py", "publishconf.py", "tasks.py", "Makefile">>

AutomationSteps == {"tasks.py", "Makefile"}

\* The statements of main after its last prompt
AfterPrompts == {FileSteps[i] : i \in DOMAIN FileSteps} \cup {"finish", "done"}

\* C2: once the language prompt has resolved, the language stored has exactly two
\* characters, whatever --lang or the locale gave as its default.
C2_LangLengthTwo ==
    "lang" \in DOMAIN returned => CONF["lang"].t = "str" /\ Len(CONF["lang"].v) = 2

\* p is the content of the marker file without the newlines that end it
IsStoredPath(p, content) ==
    /\ Len(p) <= Len(content)
    /\ SubSeq(content, 1, Len(p)) = p
    /\ \A j \in (Len(p) + 1)..Len(content) : content[j] = "\n"
    /\ p # <<>> => p[Len(p)] # "\n"

\* C8: with a marker file and no --path the directory prompt is never asked and
\* basedir is the path the marker file stores; otherwise (no marker file, or a
\* --path, be it ".") the directory prompt is asked, its default the --path value
\* or the current directory.
C8_DirectoryResolution ==
    LET reuse == marker # None /\ args.path.is_default_path IN
    /\ args.path.is_default_path => args.path.v = curdir
    /\ reuse =>
        /\ ~Asked("basedir")
        /\ pc # "basedir" =>
              CONF["basedir"].t = "str" /\ IsStoredPath(CONF["basedir"].v, marker.v)
    /\ ~reuse =>
        /\ \A a \in asked : a.q = "basedir" => a.default = Str(args.path.v)
        /\ pc # "basedir" => Asked("basedir")

\* A marker file and an explicit `--path .`: the directory prompt was asked.
C8_Witness ==
    /\ marker # None
    /\ ~args.path.is_default_path
    /\ args.path.v = curdir
    /\ Asked("basedir")
    /\ pc = "sitename"

\* C9: the page-size prompt is asked exactly when the pagination prompt returned
\* true; with pagination off default_pagination is the boolean False; with it on,
\* default_pagination is the integer the page-size prompt returned, the integer
\* typed or the default 10 on an empty line.
C9_PaginationBranch ==
    /\ Asked("default_pagination") => Returned("with_pagination", Bool(TRUE))
    /\ ("with_pagination" \in DOMAIN returned /\ pc # "default_pagination") =>
          IF returned["with_pagination"] = Bool(TRUE)
          THEN /\ Asked("default_pagination")
               /\ "default_pagination" \in DOMAIN returned
               /\ CONF["default_pagination"] = returned["default_pagination"]
               /\ CONF["default_pagination"].t = "int"
          ELSE /\ returned["with_pagination"] = Bool(FALSE)
               /\ ~Asked("default_pagination")
               /\ CONF["default_pagination"] = Bool(FALSE)
    /\ (lastAsk.q = "default_pagination" /\ lastAsk.done) =>
          IF IsBlank(lastAsk.line)
          THEN lastAsk.value = Num(10)
          ELSE /\ lastAsk.value.t = "int"
               /\ lastAsk.value.v >= 0
               /\ IsTrimOf(Decimal(lastAsk.value.v), lastAsk.line)

\* Pagination refused: default_pagination is False and no page size was asked.
C9_Witness ==
    /\ Returned("with_pagination", Bool(FALSE))
    /\ CONF["default_pagination"] = Bool(FALSE)
    /\ ~Asked("default_pagination")
    /\ pc = "timezone"

AddedKeys ==
    {"sitename", "author", "with_pagination",
     "ftp", "ssh", "dropbox", "s3", "cloudfiles", "github"}

C7_TargetsIsolated ==
    \A t \in DOMAIN TargetKeys :
        LET optedIn == Returned("automation", Bool(TRUE)) /\ Returned(t, Bool(TRUE)) IN
        /\ (\E k \in TargetKeys[t] : CONF[k] # DefaultCONF[k]) => optedIn
        /\ (pc = "done" /\ optedIn) =>
              \A k \in TargetKeys[t] \ {"github_pages_branch"} :
                  k \in DOMAIN returned /\ CONF[k] = returned[k]

\* FTP alone opted into, its three answers typed: they are stored, and the other
\* targets' settings are the defaults.
C7_Witness ==
    /\ pc = "done"
    /\ Returned("ftp", Bool(TRUE))
    /\ \A k \in TargetKeys["ftp"] : CONF[k] = Str(<<"x">>)
    /\ \A t \in DOMAIN TargetKeys \ {"ftp"} :
          /\ Returned(t, Bool(FALSE))
          /\ \A k \in TargetKeys[t] : CONF[k] = DefaultCONF[k]

\* The steps main has run when it is at pc
StepsBefore(at) ==
    LET all == IF Returned("automation", Bool(TRUE)) THEN FileSteps
               ELSE SubSeq(FileSteps, 1, Len(FileSteps) - Cardinality(AutomationSteps))
    IN IF \E i \in DOMAIN all : all[i] = at
       THEN SubSeq(all, 1, (CHOOSE i \in DOMAIN all : all[i] = at) - 1)
       ELSE all

\* C5: whichever directory and rendering steps fail, each failure is reported,
\* the step returns to the statement after it, every later step is still run, and
\* the run goes on to the completion message.
C5_FailuresNotFatal ==
    /\ errors \subseteq {attempted[i] : i \in DOMAIN attempted}
    /\ attempted # <<>> => pc \in AfterPrompts
    /\ pc \in AfterPrompts => attempted = StepsBefore(pc)
    /\ pc \in AfterPrompts \ {"done"} => ENABLED NextFiles

\* All six steps failed and the run completed.
C5_Witness ==
    /\ pc = "done"
    /\ errors = {FileSteps[i] : i \in DOMAIN FileSteps}
    /\ attempted = FileSteps

\* C6: a completed run rendered pelicanconf.py and publishconf.py, and rendered
\* tasks.py and Makefile exactly if the automation prompt returned true; nothing
\* is rendered before every prompt has resolved.
C6_RenderedFiles ==
    /\ pc = "done" =>
        /\ Ran("pelicanconf.py")
        /\ Ran("publishconf.py")
        /\ \A f \in AutomationSteps : Ran(f) <=> Returned("automation", Bool(TRUE))
    /\ attempted # <<>> =>
        /\ pc \in AfterPrompts
        /\ lastAsk.done
        /\ \A a \in asked : a.q \in DOMAIN returned

\* Automation refused: the run completed without tasks.py and Makefile.
C6_Witness ==
    /\ pc = "done"
    /\ Returned("automation", Bool(FALSE))
    /\ Ran("pelicanconf.py")
    /\ Ran("publishconf.py")
    /\ \A f \in AutomationSteps : ~Ran(f)

====
